---- MODULE Spec2Model ----
(***************************************************************************)
(* A model of the file-backed JSON key-value store of                      *)
(* src/src/Manager/JSON/JSON.ts (class DataBase).                          *)
(*                                                                         *)
(* A JavaScript value is a record [t, v]: t is its kind and v its payload. *)
(* Strings (keys, separators, string values) are sequences of one-char     *)
(* strings, so that String.prototype.split and string indexing are         *)
(* computed rather than looked up.  An object's payload is a function from *)
(* property names to values, an array's payload the sequence of elements   *)
(* (an in-memory hole is an element Undefined: both read as undefined and  *)
(* both are written as null by JSON.stringify).                            *)
(***************************************************************************)
EXTENDS Integers, Sequences, FiniteSets, TLC

VARIABLES
    file,           \* the content of the backing file
    nestedEnabled,  \* this.#nestedEnabled
    separator,      \* this.#separator
    last,           \* the call made last: its arguments, the content before it, its outcome
    steps,          \* number of calls made so far
    race            \* two writers on the same file: what each has read and is about to write

vars == <<file, nestedEnabled, separator, last, steps, race>>

\* Number of calls in one run.
MaxOps == 2

-----------------------------------------------------------------------------
(* JavaScript values *)

Undefined == [t |-> "undefined", v |-> 0]
Null == [t |-> "null", v |-> 0]
Num(n) == [t |-> "number", v |-> n]
Str(s) == [t |-> "string", v |-> s]
Bool(b) == [t |-> "boolean", v |-> b]
Arr(s) == [t |-> "array", v |-> s]
Obj(f) == [t |-> "object", v |-> f]
Fn(name) == [t |-> "function", v |-> name]

\* {} as the code writes it (lines 18, 34, 42, 456)
EmptyObj == Obj([k \in {} |-> Null])

\* A thrown error, as the result of a walk in place of a value.
Throw(kind) == [t |-> "throw", v |-> kind]

IsThrow(x) == x.t = "throw"

\* typeof
TypeOf(x) ==
    CASE x.t \in {"null", "array", "object"} -> "object"
      [] OTHER -> x.t

\* ToBoolean: what `if (x)` and `!x` test
Truthy(x) ==
    CASE x.t = "undefined" -> FALSE
      [] x.t = "null" -> FALSE
      [] x.t = "number" -> x.v # 0
      [] x.t = "string" -> x.v # <<>>
      [] x.t = "boolean" -> x.v
      [] OTHER -> TRUE

\* null and undefined have no properties: reading one throws a TypeError
Nullish(x) == x.t \in {"null", "undefined"}

\* Array.isArray
IsArray(x) == x.t = "array"

Digits == {"0", "1", "2", "3", "4", "5", "6", "7", "8", "9"}

DigitVal(c) ==
    CASE c = "0" -> 0 [] c = "1" -> 1 [] c = "2" -> 2 [] c = "3" -> 3 [] c = "4" -> 4
      [] c = "5" -> 5 [] c = "6" -> 6 [] c = "7" -> 7 [] c = "8" -> 8 [] c = "9" -> 9

\* A property name that is an array index: a canonical decimal numeral.
IsIndex(p) ==
    /\ Len(p) >= 1
    /\ \A i \in 1..Len(p) : p[i] \in Digits
    /\ (Len(p) = 1 \/ p[1] # "0")

RECURSIVE ToIndex(_)
ToIndex(p) ==
    IF p = <<>> THEN 0
    ELSE 10 * ToIndex(SubSeq(p, 1, Len(p) - 1)) + DigitVal(p[Len(p)])

\* x.hasOwnProperty(p), for x neither null nor undefined.  The names drawn
\* here are never "length" nor a name of a prototype.
HasOwn(x, p) ==
    CASE x.t = "object" -> p \in DOMAIN x.v
      [] x.t \in {"array", "string"} -> IsIndex(p) /\ ToIndex(p) < Len(x.v)
      [] OTHER -> FALSE

\* x[p], for x neither null nor undefined
GetProp(x, p) ==
    CASE x.t = "object" -> IF p \in DOMAIN x.v THEN x.v[p] ELSE Undefined
      [] x.t = "array" ->
            IF IsIndex(p) /\ ToIndex(p) < Len(x.v) THEN x.v[ToIndex(p) + 1] ELSE Undefined
      [] x.t = "string" ->
            IF IsIndex(p) /\ ToIndex(p) < Len(x.v) THEN Str(<<x.v[ToIndex(p) + 1]>>) ELSE Undefined
      [] OTHER -> Undefined

\* x[p] = val, for x an object or an array, as far as the written file can
\* show it: a property of an array whose name is no index is never
\* serialised, an index past the end leaves holes before it.
SetProp(x, p, val) ==
    CASE x.t = "object" ->
            Obj([k \in DOMAIN x.v \cup {p} |-> IF k = p THEN val ELSE x.v[k]])
      [] x.t = "array" ->
            IF IsIndex(p)
            THEN Arr([i \in 1..(IF ToIndex(p) < Len(x.v) THEN Len(x.v) ELSE ToIndex(p) + 1) |->
                        IF i = ToIndex(p) + 1 THEN val
                        ELSE IF i <= Len(x.v) THEN x.v[i] ELSE Undefined])
            ELSE x

\* delete x[p], for x an object or an array that has p: an array keeps its
\* length and gets a hole.
DeleteProp(x, p) ==
    CASE x.t = "object" -> Obj([k \in DOMAIN x.v \ {p} |-> x.v[k]])
      [] x.t = "array" -> Arr([i \in 1..Len(x.v) |-> IF i = ToIndex(p) + 1 THEN Undefined ELSE x.v[i]])

\* a === b, for a an element read from the parsed file and b a value of the
\* caller: two objects (arrays, functions) are never the same reference.
StrictEq(a, b) ==
    /\ a.t = b.t
    /\ a.t \in {"undefined", "null", "number", "string", "boolean"}
    /\ a.v = b.v

-----------------------------------------------------------------------------
(* Strings *)

\* Whether sep occurs in s at position i (1-based).
OccursAt(s, sep, i) ==
    /\ i + Len(sep) - 1 <= Len(s)
    /\ SubSeq(s, i, i + Len(sep) - 1) = sep

\* The first position >= 1 at which sep occurs in s, or 0.
FirstOcc(s, sep) ==
    IF \E i \in 1..Len(s) : OccursAt(s, sep, i)
    THEN CHOOSE i \in 1..Len(s) : OccursAt(s, sep, i) /\ \A j \in 1..(i - 1) : ~OccursAt(s, sep, j)
    ELSE 0

\* key.split(separator), for a separator that is not empty
RECURSIVE Split(_, _)
Split(s, sep) ==
    IF FirstOcc(s, sep) = 0 THEN <<s>>
    ELSE <<SubSeq(s, 1, FirstOcc(s, sep) - 1)>>
            \o Split(SubSeq(s, FirstOcc(s, sep) + Len(sep), Len(s)), sep)

-----------------------------------------------------------------------------
(* The file *)

\* JSON.stringify followed by JSON.parse, on values: a property whose
\* value is undefined or a function is left out of an object, and such an
\* element of an array is written as null.
RECURSIVE Stringify(_)
Stringify(x) ==
    CASE x.t = "object" ->
            Obj([k \in {j \in DOMAIN x.v : x.v[j].t \notin {"undefined", "function"}} |->
                    Stringify(x.v[k])])
      [] x.t = "array" ->
            Arr([i \in 1..Len(x.v) |->
                    IF x.v[i].t \in {"undefined", "function"} THEN Null ELSE Stringify(x.v[i])])
      [] OTHER -> x

\* The content of a file without text, which is read as {}.
EmptyText == [t |-> "empty", v |-> 0]

\* const file = fileContent ? JSON.parse(fileContent) : {}
ReadFile(content) == IF content = EmptyText THEN EmptyObj ELSE content

\* Values that JSON can hold.
RECURSIVE IsJSON(_)
IsJSON(x) ==
    CASE x.t = "object" -> \A k \in DOMAIN x.v : IsJSON(x.v[k])
      [] x.t = "array" -> \A i \in 1..Len(x.v) : IsJSON(x.v[i])
      [] OTHER -> x.t \in {"null", "number", "string", "boolean"}

-----------------------------------------------------------------------------
(* Outcomes of a call *)

\* The call returned ret, after writing content `writes` times.
Returned(content, ret, writes) ==
    [content |-> content, ret |-> ret, err |-> "none", writes |-> writes]

\* A call that writes the document it parsed and then throws.
FailedAfterWrite(content, kind) ==
    [content |-> Stringify(ReadFile(content)), ret |-> Undefined, err |-> kind, writes |-> 1]

\* The call threw before any write.
Failed(content, kind) ==
    [content |-> content, ret |-> Undefined, err |-> kind, writes |-> 0]

\* The two tests of the key in the other order: the type first.
KeyErrorTypeFirst(key) ==
    IF TypeOf(key) # "string" THEN "InvalidKeyType"
    ELSE IF ~Truthy(key) THEN "InvalidKey"
    ELSE "none"

\* if (!key) throw ...; if (typeof key !== 'string') throw ...
KeyError(key) ==
    IF ~Truthy(key) THEN "InvalidKey"
    ELSE IF TypeOf(key) # "string" THEN "InvalidKeyType"
    ELSE "none"

-----------------------------------------------------------------------------
(* set *)

\* The loop and the assignment of the nested branch, on the object cur
\* with the key parts still to walk.
RECURSIVE SetWalk(_, _, _)
SetWalk(cur, parts, value) ==
    IF Len(parts) = 1 THEN SetProp(cur, parts[1], value)
    ELSE LET child == GetProp(cur, parts[1])
         IN IF ~Truthy(child)
            THEN SetProp(cur, parts[1], SetWalk(EmptyObj, Tail(parts), value))
            ELSE IF TypeOf(child) # "object" THEN Throw("CannotCreateProperty")
            ELSE LET r == SetWalk(child, Tail(parts), value)
                 IN IF IsThrow(r) THEN r ELSE SetProp(cur, parts[1], r)

\* set that splits the key whatever the nested flag says.
SetCallSplits(content, key, value, nested, sep) ==
    IF KeyError(key) # "none" THEN Failed(content, KeyError(key))
    ELSE LET r == SetWalk(ReadFile(content), Split(key.v, sep), value)
         IN IF IsThrow(r) THEN Failed(content, r.v)
            ELSE Returned(Stringify(r), Undefined, 1)

SetCall(content, key, value, nested, sep) ==
    IF KeyError(key) # "none" THEN Failed(content, KeyError(key))
    ELSE LET r == IF nested
                  THEN SetWalk(ReadFile(content), Split(key.v, sep), value)
                  ELSE SetProp(ReadFile(content), key.v, value)
         IN IF IsThrow(r) THEN Failed(content, r.v)
            ELSE Returned(Stringify(r), Undefined, 1)

-----------------------------------------------------------------------------
(* get, fetch, has *)

RECURSIVE GetWalk(_, _)
GetWalk(cur, parts) ==
    IF parts = <<>> THEN cur
    ELSE IF Nullish(cur) THEN Throw("TypeError")
    ELSE IF ~HasOwn(cur, parts[1]) THEN Undefined
    ELSE GetWalk(GetProp(cur, parts[1]), Tail(parts))

\* What get returns, or the error it throws, as a value.
GetValue(content, key, nested, sep) ==
    IF nested THEN GetWalk(ReadFile(content), Split(key.v, sep))
    ELSE GetProp(ReadFile(content), key.v)

GetCall(content, key, nested, sep) ==
    IF KeyError(key) # "none" THEN Failed(content, KeyError(key))
    ELSE LET r == GetValue(content, key, nested, sep)
         IN IF IsThrow(r) THEN Failed(content, r.v) ELSE Returned(content, r, 0)

FetchCall(content, key, nested, sep) ==
    IF KeyError(key) # "none" THEN Failed(content, KeyError(key))
    ELSE GetCall(content, key, nested, sep)

HasCall(content, key, nested, sep) ==
    IF KeyError(key) # "none" THEN Failed(content, KeyError(key))
    ELSE LET g == GetCall(content, key, nested, sep)
         IN IF g.err # "none" THEN g ELSE Returned(content, Bool(Truthy(g.ret)), 0)

-----------------------------------------------------------------------------
(* delete *)

\* The walk found no such property: the call returns false.
Absent == [t |-> "absent", v |-> 0]

\* The loop and the terminal test of the nested branch: the object with the
\* property removed, Absent, or the TypeError of reading a property of null
\* or of deleting a character of a string (the class is strict code).
RECURSIVE DeleteWalk(_, _)
DeleteWalk(cur, parts) ==
    IF Nullish(cur) THEN Throw("TypeError")
    ELSE IF ~HasOwn(cur, parts[1]) THEN Absent
    ELSE IF Len(parts) = 1
         THEN IF cur.t = "string" THEN Throw("TypeError") ELSE DeleteProp(cur, parts[1])
    ELSE LET r == DeleteWalk(GetProp(cur, parts[1]), Tail(parts))
         IN IF r.t \in {"throw", "absent"} THEN r ELSE SetProp(cur, parts[1], r)

DeleteCall(content, key, nested, sep) ==
    IF KeyError(key) # "none" THEN Failed(content, KeyError(key))
    ELSE LET r == IF nested
                  THEN DeleteWalk(ReadFile(content), Split(key.v, sep))
                  ELSE IF HasOwn(ReadFile(content), key.v)
                       THEN DeleteProp(ReadFile(content), key.v)
                       ELSE Absent
         IN IF IsThrow(r) THEN Failed(content, r.v)
            ELSE IF r = Absent THEN Returned(content, Bool(FALSE), 0)
            ELSE Returned(Stringify(r), Bool(TRUE), 1)

-----------------------------------------------------------------------------
(* add, subtract: sign is 1 for add and -1 for subtract *)

RECURSIVE ArithWalk(_, _, _, _)
ArithWalk(cur, parts, value, sign) ==
    IF Nullish(cur) THEN Throw("TypeError")
    ELSE IF Len(parts) = 1
         THEN LET old == GetProp(cur, parts[1])
              IN IF ~Truthy(old) THEN SetProp(cur, parts[1], Num(sign * value.v))
                 ELSE IF TypeOf(old) = "number"
                      THEN SetProp(cur, parts[1], Num(old.v + sign * value.v))
                 ELSE Throw("NonNumericTarget")
    ELSE IF ~HasOwn(cur, parts[1])
         THEN SetProp(cur, parts[1], ArithWalk(EmptyObj, Tail(parts), value, sign))
    ELSE IF TypeOf(GetProp(cur, parts[1])) # "object" THEN Throw("CannotCreateProperty")
    ELSE LET r == ArithWalk(GetProp(cur, parts[1]), Tail(parts), value, sign)
         IN IF IsThrow(r) THEN r ELSE SetProp(cur, parts[1], r)

\* The non-nested branch.
ArithFlat(f, k, value, sign) ==
    IF ~HasOwn(f, k) THEN SetProp(f, k, Num(sign * value.v))
    ELSE IF TypeOf(GetProp(f, k)) # "number" THEN Throw("NonNumericTarget")
    ELSE SetProp(f, k, Num(GetProp(f, k).v + sign * value.v))

ArithCall(content, key, value, nested, sep, sign) ==
    IF KeyError(key) # "none" THEN Failed(content, KeyError(key))
    ELSE IF TypeOf(value) # "number" THEN Failed(content, "InvalidValueType")
    ELSE LET r == IF nested
                  THEN ArithWalk(ReadFile(content), Split(key.v, sep), value, sign)
                  ELSE ArithFlat(ReadFile(content), key.v, value, sign)
         IN IF IsThrow(r) THEN Failed(content, r.v)
            ELSE Returned(Stringify(r), Undefined, 1)

\* add whose body is suspended before its write: the call returns with the
\* file as it was.
AddCallSuspended(content, key, value, nested, sep) ==
    IF ArithCall(content, key, value, nested, sep, 1).err # "none"
    THEN ArithCall(content, key, value, nested, sep, 1)
    ELSE Returned(content, Undefined, 0)

AddCall(content, key, value, nested, sep) == ArithCall(content, key, value, nested, sep, 1)

SubtractCall(content, key, value, nested, sep) == ArithCall(content, key, value, nested, sep, -1)

-----------------------------------------------------------------------------
(* push *)

RECURSIVE PushWalk(_, _, _)
PushWalk(cur, parts, value) ==
    IF Len(parts) = 1
    THEN IF ~Truthy(cur) \/ TypeOf(cur) # "object" THEN Throw("NotAnArray")
         ELSE LET old == GetProp(cur, parts[1])
              IN IF ~Truthy(old) THEN SetProp(cur, parts[1], Arr(<<value>>))
                 ELSE IF ~IsArray(old) THEN Throw("NotAnArray")
                 ELSE SetProp(cur, parts[1], Arr(Append(old.v, value)))
    ELSE IF Nullish(cur) THEN Throw("TypeError")
    ELSE IF ~HasOwn(cur, parts[1])
         THEN SetProp(cur, parts[1], PushWalk(EmptyObj, Tail(parts), value))
    ELSE IF TypeOf(GetProp(cur, parts[1])) # "object" THEN Throw("CannotCreateProperty")
    ELSE LET r == PushWalk(GetProp(cur, parts[1]), Tail(parts), value)
         IN IF IsThrow(r) THEN r ELSE SetProp(cur, parts[1], r)

\* The non-nested branch.
PushFlat(f, k, value) ==
    IF ~HasOwn(f, k) THEN SetProp(f, k, Arr(<<value>>))
    ELSE IF ~IsArray(GetProp(f, k)) THEN Throw("NotAnArray")
    ELSE SetProp(f, k, Arr(Append(GetProp(f, k).v, value)))

PushCall(content, key, value, nested, sep) ==
    IF KeyError(key) # "none" THEN Failed(content, KeyError(key))
    ELSE LET r == IF nested
                  THEN PushWalk(ReadFile(content), Split(key.v, sep), value)
                  ELSE PushFlat(ReadFile(content), key.v, value)
         IN IF IsThrow(r) THEN Failed(content, r.v)
            ELSE Returned(Stringify(r), Undefined, 1)

-----------------------------------------------------------------------------
(* pull *)

\* The callbacks a caller passes: (element, index, array) => boolean.
Callback(name, element, index, array) ==
    CASE name = "positive" -> Bool(element.t = "number" /\ element.v > 0)
      [] name = "first" -> Bool(index = 0)

\* The test of the reduce callback: the caller's function when
\* callbackOrValue is one, else element === value.
Selected(callbackOrValue, element, index, array) ==
    IF TypeOf(callbackOrValue) = "function"
    THEN Truthy(Callback(callbackOrValue.v, element, index, Arr(array)))
    ELSE StrictEq(element, callbackOrValue)

\* array.reduce(...): the indexes (0-based) to remove, ascending, from index i on.
RECURSIVE IndexesToRemove(_, _, _)
IndexesToRemove(array, callbackOrValue, i) ==
    IF i >= Len(array) THEN <<>>
    ELSE (IF Selected(callbackOrValue, array[i + 1], i, array) THEN <<i>> ELSE <<>>)
            \o IndexesToRemove(array, callbackOrValue, i + 1)

\* array.splice(index, 1): nothing is removed at an index past the end
Splice(array, index) ==
    IF index >= Len(array) THEN array
    ELSE SubSeq(array, 1, index) \o SubSeq(array, index + 2, Len(array))

\* The removal loop run upwards, from the lowest index to the highest: each
\* removal shifts the elements after it, so the later indexes miss.
RECURSIVE SpliceAllAscending(_, _, _)
SpliceAllAscending(array, indexes, i) ==
    IF i < 0 THEN array
    ELSE Splice(SpliceAllAscending(array, indexes, i - 1), indexes[i + 1])

\* for (let i = indexesToRemove.length - 1; i >= 0; i--) array.splice(indexesToRemove[i], 1)
RECURSIVE SpliceAll(_, _, _)
SpliceAll(array, indexes, i) ==
    IF i < 0 THEN array
    ELSE SpliceAll(Splice(array, indexes[i + 1]), indexes, i - 1)

\* array.indexOf(value): the first index whose element === value, or -1
IndexOf(array, value) ==
    IF \E i \in 1..Len(array) : StrictEq(array[i], value)
    THEN (CHOOSE i \in 1..Len(array) :
            StrictEq(array[i], value) /\ \A j \in 1..(i - 1) : ~StrictEq(array[j], value)) - 1
    ELSE -1

\* The removal from the terminal array: the array left and `removed`.
PullArray(array, callbackOrValue, pullAll) ==
    IF pullAll
    THEN LET indexes == IndexesToRemove(array, callbackOrValue, 0)
         IN IF Len(indexes) > 0
            THEN [array |-> SpliceAll(array, indexes, Len(indexes) - 1), removed |-> TRUE]
            ELSE [array |-> array, removed |-> FALSE]
    ELSE IF IndexOf(array, callbackOrValue) # -1
         THEN [array |-> Splice(array, IndexOf(array, callbackOrValue)), removed |-> TRUE]
         ELSE [array |-> array, removed |-> FALSE]

\* What a frame of traverseAndPull hands back: the object it walked, what
\* it returns, and the writes made by it and by the frames below it.
Pulled(obj, removed, writes) == [t |-> "pulled", v |-> obj, removed |-> removed, writes |-> writes]

RECURSIVE TraverseAndPull(_, _, _, _)
TraverseAndPull(cur, parts, callbackOrValue, pullAll) ==
    IF Nullish(cur) THEN Throw("TypeError")
    ELSE IF Len(parts) = 1
         THEN IF ~HasOwn(cur, parts[1]) \/ ~IsArray(GetProp(cur, parts[1]))
              THEN Throw("NotAnArray")
              ELSE LET p == PullArray(GetProp(cur, parts[1]).v, callbackOrValue, pullAll)
                   IN Pulled(SetProp(cur, parts[1], Arr(p.array)), p.removed,
                             IF p.removed THEN 1 ELSE 0)
    ELSE IF ~HasOwn(cur, parts[1]) \/ TypeOf(GetProp(cur, parts[1])) # "object"
         THEN Throw("NotAnArray")
    ELSE LET r == TraverseAndPull(GetProp(cur, parts[1]), Tail(parts), callbackOrValue, pullAll)
         IN IF IsThrow(r) THEN r
            ELSE Pulled(SetProp(cur, parts[1], r.v), r.removed,
                        r.writes + (IF r.removed THEN 1 ELSE 0))

\* The non-nested branch.
PullFlat(f, k, callbackOrValue, pullAll) ==
    IF ~HasOwn(f, k) \/ ~IsArray(GetProp(f, k)) THEN Throw("NotAnArray")
    ELSE LET p == PullArray(GetProp(f, k).v, callbackOrValue, pullAll)
         IN Pulled(SetProp(f, k, Arr(p.array)), p.removed, IF p.removed THEN 1 ELSE 0)

\* Frames that each hold a copy of the document made on the way down: the
\* terminal frame writes its changed copy, the frames above it then write
\* theirs, which the removal did not reach.
PullWritesStale(content, key, callbackOrValue, pullAll, nested, sep) ==
    LET r == IF nested
             THEN TraverseAndPull(ReadFile(content), Split(key.v, sep), callbackOrValue, pullAll)
             ELSE PullFlat(ReadFile(content), key.v, callbackOrValue, pullAll)
    IN IF IsThrow(r) THEN <<>>
       ELSE IF ~r.removed THEN <<>>
       ELSE [i \in 1..r.writes |->
                IF i = 1 THEN Stringify(r.v) ELSE Stringify(ReadFile(content))]

\* The contents a pull with a valid key writes to the file, in the order of
\* its writes: the terminal frame writes first, then each frame above it as
\* the recursion unwinds.  Every frame serialises `file`, the one document
\* parsed at the start of the call, and the splice has changed it in place
\* before the first write.
PullWrites(content, key, callbackOrValue, pullAll, nested, sep) ==
    LET r == IF nested
             THEN TraverseAndPull(ReadFile(content), Split(key.v, sep), callbackOrValue, pullAll)
             ELSE PullFlat(ReadFile(content), key.v, callbackOrValue, pullAll)
    IN IF IsThrow(r) THEN <<>>
       ELSE IF ~r.removed THEN <<>>
       ELSE [i \in 1..r.writes |-> Stringify(r.v)]

\* pull that writes the document whether or not it removed an element.
PullCallAlwaysWrites(content, key, callbackOrValue, pullAll, nested, sep) ==
    IF KeyError(key) # "none" THEN Failed(content, KeyError(key))
    ELSE LET r == IF nested
                  THEN TraverseAndPull(ReadFile(content), Split(key.v, sep), callbackOrValue, pullAll)
                  ELSE PullFlat(ReadFile(content), key.v, callbackOrValue, pullAll)
         IN IF IsThrow(r) THEN Failed(content, r.v)
            ELSE Returned(Stringify(r.v), Bool(r.removed), r.writes + (IF r.removed THEN 0 ELSE 1))

PullCall(content, key, callbackOrValue, pullAll, nested, sep) ==
    IF KeyError(key) # "none" THEN Failed(content, KeyError(key))
    ELSE LET r == IF nested
                  THEN TraverseAndPull(ReadFile(content), Split(key.v, sep), callbackOrValue, pullAll)
                  ELSE PullFlat(ReadFile(content), key.v, callbackOrValue, pullAll)
         IN IF IsThrow(r) THEN Failed(content, r.v)
            ELSE IF r.removed
                 THEN Returned(PullWrites(content, key, callbackOrValue, pullAll, nested, sep)[r.writes],
                               Bool(TRUE), r.writes)
            ELSE Returned(content, Bool(FALSE), 0)

-----------------------------------------------------------------------------
(* all, reset *)

\* all() with the test of has: a key whose value is falsy gets no entry.
AllCallTruthy(content) ==
    Returned(content,
             [t |-> "entries",
              v |-> {[ID |-> k, data |-> ReadFile(content).v[k]] :
                        k \in {j \in DOMAIN ReadFile(content).v : Truthy(ReadFile(content).v[j])}}],
             0)

\* The entries all() returns, one per key of Object.keys(file); their
\* order is not modelled.
AllCall(content) ==
    Returned(content,
             [t |-> "entries",
              v |-> {[ID |-> k, data |-> ReadFile(content).v[k]] : k \in DOMAIN ReadFile(content).v}],
             0)

ResetCall(content) == Returned(Stringify(EmptyObj), Undefined, 1)

-----------------------------------------------------------------------------
(* The calls a client makes *)

DotDot == <<".", ".">>
sA == <<"a">>
sB == <<"b">>
sC == <<"c">>
sAB == sA \o DotDot \o sB
sA0 == sA \o DotDot \o <<"0">>
sABC == sA \o DotDot \o sB \o DotDot \o sC
sA2 == sA \o DotDot \o <<"2">>

\* Keys: plain, nested two and three deep, with an array index as a segment,
\* and the kinds the validation rejects: the empty string, a falsy value
\* that is no string, a truthy value that is no string.
Keys == {Str(sA), Str(sAB), Str(sA0), Str(sABC), Str(<<>>), Null, Num(1)}

\* Values given to set.
Values ==
    {Num(0), Num(1), Str(<<>>), Str(<<"s">>), Bool(FALSE), Null, Undefined,
     Arr(<<Num(1), Num(0), Num(1)>>)}

\* A key that the validation rejects is passed with the value 1 and without
\* options: the rejection reads neither of them.
ValuesFor(key, values) == IF KeyError(key) = "none" THEN values ELSE {Num(1)}

\* The key and the value given to set: any of those, and set("a..2", 1),
\* whose last segment is an index past the end of a short array.
SetArgs ==
    {args \in Keys \X Values : args[2] \in ValuesFor(args[1], Values)}
        \cup {<<Str(sA2), Num(1)>>}

\* Values given to push.
PushValues == {Num(0), Num(1), Undefined}

\* Second arguments given to add and subtract.
Amounts == {Num(1), Num(2), Str(<<"s">>)}

\* callbackOrValue arguments given to pull.
PullArgs == {Num(1), Fn("positive"), Fn("first")}

\* The trailing arguments of a call: both left out, nesting switched off,
\* or another separator.
Options ==
    {[nestedEnabled |-> Undefined, separator |-> Undefined],
     [nestedEnabled |-> Bool(FALSE), separator |-> Undefined],
     [nestedEnabled |-> Undefined, separator |-> Str(<<".">>)]}

\* A call without trailing arguments.
NoOptions == [nestedEnabled |-> Undefined, separator |-> Undefined]

OptionsFor(key) == IF KeyError(key) = "none" THEN Options ELSE {NoOptions}

\* nestedEnabled = this.#nestedEnabled, separator = this.#separator
Nested(opt) == IF opt.nestedEnabled = Undefined THEN nestedEnabled ELSE Truthy(opt.nestedEnabled)

Sep(opt) == IF opt.separator = Undefined THEN separator ELSE opt.separator.v

\* The methods declared async: their body runs inside a promise.
IsAsync(op) == op = "add"

\* What `last` holds of a call: its arguments, the file before it, the
\* outcome of its body, and how the caller gets that outcome.  An error of
\* a plain method is thrown to the caller during the call; an async method
\* never throws, it returns a promise that is already settled when its body
\* holds no await: fulfilled when the body returned, rejected with the
\* error when the body threw.
Record(op, key, value, pullAll, opt, out) ==
    [op |-> op, key |-> key, value |-> value, pullAll |-> pullAll, opt |-> opt,
     nested |-> Nested(opt), sep |-> Sep(opt), pre |-> file,
     ret |-> out.ret, err |-> out.err, writes |-> out.writes,
     thrown |-> (out.err # "none" /\ ~IsAsync(op)),
     promise |-> IF ~IsAsync(op) THEN "none"
                 ELSE IF out.err = "none" THEN "fulfilled" ELSE "rejected"]

\* A run is a sequence of at most MaxOps calls, and `last` is its final call.
CanCall == last.op = "new" /\ steps < MaxOps

\* A call that stores the flag and the separator it used in the instance.
CallStoresOptions(op, key, value, pullAll, opt, out) ==
    /\ steps' = steps + 1
    /\ file' = out.content
    /\ last' \in {Record(op, key, value, pullAll, opt, out)}
                    \cup (IF steps + 1 < MaxOps THEN {last} ELSE {})
    /\ nestedEnabled' = Nested(opt)
    /\ separator' = Sep(opt)
    /\ UNCHANGED race

\* The call is made and the file holds what it wrote; the call either ends
\* the run and is recorded, or is followed by another.
Call(op, key, value, pullAll, opt, out) ==
    /\ steps' = steps + 1
    /\ file' = out.content
    /\ last' \in {Record(op, key, value, pullAll, opt, out)}
                    \cup (IF steps + 1 < MaxOps THEN {last} ELSE {})
    /\ UNCHANGED <<nestedEnabled, separator, race>>

\* The two writers of a race: other processes, or other instances, on the
\* same file.
Writers == {"w1", "w2"}

\* No other writer is on the file.
NoWriters == <<>>

\* No writer has started.
NoRace ==
    [pc |-> [w \in Writers |-> "idle"],
     req |-> [w \in Writers |-> [op |-> "none", key |-> Undefined, value |-> Undefined, pullAll |-> FALSE]],
     snap |-> [w \in Writers |-> EmptyText],
     err |-> [w \in Writers |-> "none"],
     order |-> <<>>]

Init ==
    /\ file \in {Stringify(EmptyObj), EmptyText}
    /\ nestedEnabled = TRUE
    /\ separator = DotDot
    /\ steps = 0
    /\ last = [op |-> "new", key |-> Undefined, value |-> Undefined, pullAll |-> FALSE,
               opt |-> NoOptions, nested |-> TRUE, sep |-> DotDot, pre |-> EmptyText,
               ret |-> Undefined, err |-> "none", writes |-> 0,
               thrown |-> FALSE, promise |-> "none"]
    /\ race = NoWriters

Set ==
    /\ CanCall
    /\ \E args \in SetArgs : \E opt \in OptionsFor(args[1]) :
        Call("set", args[1], args[2], FALSE, opt,
             SetCall(file, args[1], args[2], Nested(opt), Sep(opt)))

Get ==
    /\ CanCall
    /\ \E key \in Keys : \E opt \in OptionsFor(key) :
        Call("get", key, Undefined, FALSE, opt, GetCall(file, key, Nested(opt), Sep(opt)))

Fetch ==
    /\ CanCall
    /\ \E key \in Keys : \E opt \in OptionsFor(key) :
        Call("fetch", key, Undefined, FALSE, opt, FetchCall(file, key, Nested(opt), Sep(opt)))

Delete ==
    /\ CanCall
    /\ \E key \in Keys : \E opt \in OptionsFor(key) :
        Call("delete", key, Undefined, FALSE, opt, DeleteCall(file, key, Nested(opt), Sep(opt)))

Has ==
    /\ CanCall
    /\ \E key \in Keys : \E opt \in OptionsFor(key) :
        Call("has", key, Undefined, FALSE, opt, HasCall(file, key, Nested(opt), Sep(opt)))

Add ==
    /\ CanCall
    /\ \E key \in Keys, value \in Amounts : \E opt \in OptionsFor(key) :
        Call("add", key, value, FALSE, opt, AddCall(file, key, value, Nested(opt), Sep(opt)))

Subtract ==
    /\ CanCall
    /\ \E key \in Keys, value \in Amounts : \E opt \in OptionsFor(key) :
        Call("subtract", key, value, FALSE, opt, SubtractCall(file, key, value, Nested(opt), Sep(opt)))

Push ==
    /\ CanCall
    /\ \E key \in Keys : \E value \in ValuesFor(key, PushValues), opt \in OptionsFor(key) :
        Call("push", key, value, FALSE, opt, PushCall(file, key, value, Nested(opt), Sep(opt)))

Pull ==
    /\ CanCall
    /\ \E key \in Keys, pullAll \in BOOLEAN :
        \E value \in ValuesFor(key, PullArgs), opt \in OptionsFor(key) :
        Call("pull", key, value, pullAll, opt,
             PullCall(file, key, value, pullAll, Nested(opt), Sep(opt)))

All ==
    /\ CanCall
    /\ Call("all", Undefined, Undefined, FALSE, NoOptions, AllCall(file))

Reset ==
    /\ CanCall
    /\ Call("reset", Undefined, Undefined, FALSE, NoOptions, ResetCall(file))

Next ==
    \/ Set
    \/ Get
    \/ Fetch
    \/ Delete
    \/ Has
    \/ Add
    \/ Subtract
    \/ Push
    \/ Pull
    \/ All
    \/ Reset

Spec == Init /\ [][Next]_vars

-----------------------------------------------------------------------------
(* Two writers on one file.  A call reads the whole file (readFileSync),   *)
(* patches the parsed document in memory and writes the whole document     *)
(* (writeFileSync); nothing locks the file between the two, so the steps   *)
(* of two processes interleave.                                            *)

\* Keys of the calls of the writers.
RaceKeys == {Str(sA), Str(sB), Str(sAB)}

\* The mutating calls a writer makes, all with the defaults of the instance.
RaceRequests ==
    {[op |-> "set", key |-> k, value |-> v, pullAll |-> FALSE] : k \in RaceKeys, v \in {Num(1), Num(0)}}
        \cup {[op |-> o, key |-> k, value |-> Num(1), pullAll |-> FALSE] :
                    o \in {"add", "subtract", "push", "pull"}, k \in RaceKeys}
        \cup {[op |-> "delete", key |-> k, value |-> Undefined, pullAll |-> FALSE] : k \in RaceKeys}
        \cup {[op |-> "reset", key |-> Undefined, value |-> Undefined, pullAll |-> FALSE]}

\* The outcome of a request on the content its writer read.
RunCall(req, content) ==
    CASE req.op = "set" -> SetCall(content, req.key, req.value, nestedEnabled, separator)
      [] req.op = "add" -> AddCall(content, req.key, req.value, nestedEnabled, separator)
      [] req.op = "subtract" -> SubtractCall(content, req.key, req.value, nestedEnabled, separator)
      [] req.op = "push" -> PushCall(content, req.key, req.value, nestedEnabled, separator)
      [] req.op = "pull" ->
            PullCall(content, req.key, req.value, req.pullAll, nestedEnabled, separator)
      [] req.op = "delete" -> DeleteCall(content, req.key, nestedEnabled, separator)
      [] req.op = "reset" -> ResetCall(content)

\* The stores the race starts on: empty, and what set("a", 1) and
\* push("a", 1) leave.
RaceFiles == {Stringify(EmptyObj), Obj(sA :> Num(1)), Obj(sA :> Arr(<<Num(1)>>))}

InitRace ==
    /\ file \in RaceFiles
    /\ nestedEnabled = TRUE
    /\ separator = DotDot
    /\ steps = 0
    /\ last = [op |-> "new", key |-> Undefined, value |-> Undefined, pullAll |-> FALSE,
               opt |-> NoOptions, nested |-> TRUE, sep |-> DotDot, pre |-> EmptyText,
               ret |-> Undefined, err |-> "none", writes |-> 0,
               thrown |-> FALSE, promise |-> "none"]
    /\ race = NoRace

\* The writer starts a call and reads the file.
WriterReads(w) ==
    /\ race.pc[w] = "idle"
    /\ \E req \in RaceRequests :
            race' = [race EXCEPT !.pc[w] = "read", !.req[w] = req, !.snap[w] = file]
    /\ UNCHANGED <<file, nestedEnabled, separator, last, steps>>

\* The write of a call that reads the file again when it writes: the call
\* as one step on the current content.
WriterWritesFresh(w) ==
    /\ race.pc[w] = "read"
    /\ file' = IF RunCall(race.req[w], file).writes > 0
               THEN RunCall(race.req[w], file).content
               ELSE file
    /\ race' = [race EXCEPT !.pc[w] = "done",
                            !.err[w] = RunCall(race.req[w], file).err,
                            !.order = IF RunCall(race.req[w], file).writes > 0
                                      THEN Append(@, w) ELSE @]
    /\ UNCHANGED <<nestedEnabled, separator, last, steps>>

\* The writer finishes its call on the document it read: it writes the
\* whole patched document, or nothing when the call fails or has nothing
\* to write.
WriterWrites(w) ==
    /\ race.pc[w] = "read"
    /\ file' = IF RunCall(race.req[w], race.snap[w]).writes > 0
               THEN RunCall(race.req[w], race.snap[w]).content
               ELSE file
    /\ race' = [race EXCEPT !.pc[w] = "done",
                            !.err[w] = RunCall(race.req[w], race.snap[w]).err,
                            !.order = IF RunCall(race.req[w], race.snap[w]).writes > 0
                                      THEN Append(@, w) ELSE @]
    /\ UNCHANGED <<nestedEnabled, separator, last, steps>>

NextRace ==
    \/ \E w \in Writers : WriterReads(w)
    \/ \E w \in Writers : WriterWrites(w)

SpecRace == InitRace /\ [][NextRace]_vars

-----------------------------------------------------------------------------
(* The document as the specification sees it: a tree of mappings *)

\* The value at a path that leads through mappings only, or Absent.
RECURSIVE At(_, _)
At(doc, path) ==
    IF path = <<>> THEN doc
    ELSE IF doc.t = "object" /\ path[1] \in DOMAIN doc.v THEN At(doc.v[path[1]], Tail(path))
    ELSE Absent

\* The document without the entry at a path that is present in it.
RECURSIVE Without(_, _)
Without(doc, path) ==
    IF Len(path) = 1 THEN Obj([k \in DOMAIN doc.v \ {path[1]} |-> doc.v[k]])
    ELSE Obj([k \in DOMAIN doc.v |->
                IF k = path[1] THEN Without(doc.v[k], Tail(path)) ELSE doc.v[k]])

\* Some segment before the last exists and holds a value that is no mapping.
Blocked(doc, path) ==
    \E i \in 1..(Len(path) - 1) :
        /\ At(doc, SubSeq(path, 1, i)) # Absent
        /\ At(doc, SubSeq(path, 1, i)).t # "object"

\* The final call of the run: whether its key passed validation, the
\* segments of its key, the document before it and after it, and what get
\* and has with the same arguments return before and after it.
KeyValid == KeyError(last.key) = "none"

LastPath == IF last.nested THEN Split(last.key.v, last.sep) ELSE <<last.key.v>>

Before == ReadFile(last.pre)

After == ReadFile(file)

GetBefore == GetCall(last.pre, last.key, last.nested, last.sep)

GetAfter == GetCall(file, last.key, last.nested, last.sep)

HasAfter == HasCall(file, last.key, last.nested, last.sep)

\* Whether element i (from 1) of an array matches a pull argument: the
\* predicate's answer for a function, equality for a value.
Matches(callbackOrValue, array, i) ==
    IF callbackOrValue.t = "function"
    THEN Truthy(Callback(callbackOrValue.v, array[i], i - 1, Arr(array)))
    ELSE array[i] = callbackOrValue

\* The elements of an array that do not match, in their order, from i on.
RECURSIVE NotMatching(_, _, _)
NotMatching(callbackOrValue, array, i) ==
    IF i > Len(array) THEN <<>>
    ELSE (IF Matches(callbackOrValue, array, i) THEN <<>> ELSE <<array[i]>>)
            \o NotMatching(callbackOrValue, array, i + 1)

\* The array without its first matching element.
WithoutFirstMatch(callbackOrValue, array) ==
    LET i == CHOOSE j \in 1..Len(array) :
                /\ Matches(callbackOrValue, array, j)
                /\ \A h \in 1..(j - 1) : ~Matches(callbackOrValue, array, h)
    IN SubSeq(array, 1, i - 1) \o SubSeq(array, i + 1, Len(array))

-----------------------------------------------------------------------------
(* Claims *)

\* C1: a set(k, v) of a JSON value v that returns without error, followed
\* by get(k) with the same nested flag and separator, returns v.
C1_SetThenGet ==
    (last.op = "set" /\ last.err = "none" /\ IsJSON(last.value))
        => (GetAfter.err = "none" /\ GetAfter.ret = last.value)

\* C2: in nested mode set, add, subtract and push fail with
\* CannotCreateProperty whenever a segment before the last exists and holds
\* a value that is no mapping.
C2_NonMappingBlocks ==
    (/\ last.op \in {"set", "add", "subtract", "push"}
     /\ last.nested
     /\ KeyValid
     /\ (last.op \in {"add", "subtract"} => TypeOf(last.value) = "number")
     /\ Blocked(Before, LastPath))
        => last.err = "CannotCreateProperty"

\* C3: pull with pullAll = false removes the first element that matches
\* (equal to the value, or accepted by the predicate) and only that one,
\* and returns true.
C3_PullFirstMatch ==
    (/\ last.op = "pull"
     /\ ~last.pullAll
     /\ KeyValid
     /\ At(Before, LastPath).t = "array"
     /\ \E i \in 1..Len(At(Before, LastPath).v) : Matches(last.value, At(Before, LastPath).v, i))
        => (/\ last.err = "none"
            /\ last.ret = Bool(TRUE)
            /\ At(After, LastPath) = Arr(WithoutFirstMatch(last.value, At(Before, LastPath).v)))

\* C4: pull with pullAll = true removes every element of the array at the
\* key that matches and no other, keeps the order of the rest, and returns
\* true exactly when it removed an element.
C4_PullAll ==
    (/\ last.op = "pull"
     /\ last.pullAll
     /\ KeyValid
     /\ At(Before, LastPath).t = "array")
        => (/\ last.err = "none"
            /\ last.ret = Bool(\E i \in 1..Len(At(Before, LastPath).v) :
                                    Matches(last.value, At(Before, LastPath).v, i))
            /\ At(After, LastPath) = Arr(NotMatching(last.value, At(Before, LastPath).v, 1)))

\* C4 happens: a pullAll call removed two elements around one that stays.
C4_Witness ==
    /\ last.op = "pull"
    /\ last.pullAll
    /\ last.ret = Bool(TRUE)
    /\ At(Before, LastPath) = Arr(<<Num(1), Num(0), Num(1)>>)
    /\ At(After, LastPath) = Arr(<<Num(0)>>)

\* C5: after an add(k, n) or subtract(k, n) that returns, get(k) is old + n
\* or old - n, old being the number get(k) returned before, 0 when it
\* returned undefined.
C5_AddSubtract ==
    (/\ last.op \in {"add", "subtract"}
     /\ last.err = "none"
     /\ GetBefore.err = "none"
     /\ GetBefore.ret.t \in {"number", "undefined"})
        => (/\ GetAfter.err = "none"
            /\ GetAfter.ret =
                    Num((IF GetBefore.ret.t = "number" THEN GetBefore.ret.v ELSE 0)
                        + (IF last.op = "add" THEN last.value.v ELSE -last.value.v)))

\* C6: add and subtract fail with NonNumericTarget, and leave the file as it
\* is, whenever the key is present and holds a value that is no number.
C6_NonNumericFails ==
    (/\ last.op \in {"add", "subtract"}
     /\ KeyValid
     /\ TypeOf(last.value) = "number"
     /\ At(Before, LastPath) # Absent
     /\ At(Before, LastPath).t # "number")
        => (last.err = "NonNumericTarget" /\ file = last.pre)

\* C7: after a push(k, x) that returns, get(k) is [x] when get(k) returned
\* undefined before, and the former array with x appended when it returned
\* an array.
C7_PushAppends ==
    (last.op = "push" /\ last.err = "none" /\ IsJSON(last.value) /\ GetBefore.err = "none")
        => (/\ GetBefore.ret = Undefined
                => (GetAfter.err = "none" /\ GetAfter.ret = Arr(<<last.value>>))
            /\ GetBefore.ret.t = "array"
                => (GetAfter.err = "none" /\ GetAfter.ret = Arr(Append(GetBefore.ret.v, last.value))))

\* C8: push fails with NotAnArray, and leaves the file as it is, whenever
\* the key is present and holds a value that is no array.
C8_NonArrayFails ==
    (/\ last.op = "push"
     /\ KeyValid
     /\ At(Before, LastPath) # Absent
     /\ At(Before, LastPath).t # "array")
        => (last.err = "NotAnArray" /\ file = last.pre)

\* C9: delete(k) never throws; when the path k is present it returns true,
\* removes that entry alone, and get(k) is then undefined and has(k) false;
\* otherwise it returns false and leaves the file as it is.
C9_Delete ==
    (last.op = "delete" /\ KeyValid)
        => (/\ last.err = "none"
            /\ IF At(Before, LastPath) # Absent
               THEN /\ last.ret = Bool(TRUE)
                    /\ After = Without(Before, LastPath)
                    /\ GetAfter.err = "none" /\ GetAfter.ret = Undefined
                    /\ HasAfter.err = "none" /\ HasAfter.ret = Bool(FALSE)
               ELSE /\ last.ret = Bool(FALSE)
                    /\ file = last.pre)

\* C10: right after a set(k, v) that returns, has(k) is true exactly when v
\* is truthy; and has(k) always is the truthiness of what get(k) returns.
C10_HasIsTruthiness ==
    /\ (last.op = "set" /\ last.err = "none" /\ IsJSON(last.value))
            => (HasAfter.err = "none" /\ HasAfter.ret = Bool(Truthy(last.value)))
    /\ \A key \in Keys, opt \in Options :
            GetCall(file, key, Nested(opt), Sep(opt)).err = "none"
                => HasCall(file, key, Nested(opt), Sep(opt)).ret
                        = Bool(Truthy(GetCall(file, key, Nested(opt), Sep(opt)).ret))

\* Some segment before the last holds an array.
ThroughArray(doc, path) ==
    \E i \in 1..(Len(path) - 1) : At(doc, SubSeq(path, 1, i)).t = "array"

\* C11: get and fetch never throw for a valid key: they return the value at
\* the path when every segment is present, and undefined when a segment is
\* absent, also when a segment before it holds null, a number, a string or
\* a boolean.
C11_GetNeverThrows ==
    (last.op \in {"get", "fetch"} /\ KeyValid /\ ~ThroughArray(Before, LastPath))
        => (/\ last.err = "none"
            /\ last.ret = IF At(Before, LastPath) # Absent THEN At(Before, LastPath) ELSE Undefined)

\* C12: all() returns one {ID, data} entry for each top-level key of the
\* document, with the whole value under the key as data, and nothing else:
\* after reset() it returns no entry, and after set("a..b..c", 1) on an
\* empty store it returns the single entry {ID: "a", data: {b: {c: 1}}}.
C12_AllTopLevel ==
    /\ last.op = "all"
            => (/\ last.err = "none"
                /\ Cardinality(last.ret.v) = Cardinality(DOMAIN Before.v)
                /\ \A k \in DOMAIN Before.v : [ID |-> k, data |-> At(Before, <<k>>)] \in last.ret.v)
    /\ last.op = "reset" => AllCall(file).ret.v = {}
    /\ (/\ last.op = "set"
        /\ last.key = Str(sABC) /\ last.value = Num(1)
        /\ last.nested /\ last.sep = DotDot
        /\ Before = EmptyObj)
            => AllCall(file).ret.v = {[ID |-> sA, data |-> Obj(sB :> Obj(sC :> Num(1)))]}

\* C12 happens: all() is called on the store that set("a..b..c", 1) made.
C12_Witness ==
    /\ last.op = "all"
    /\ last.ret.v = {[ID |-> sA, data |-> Obj(sB :> Obj(sC :> Num(1)))]}

\* The entry of the document named by the whole key of the final call,
\* before and after it.
LiteralBefore == At(Before, <<last.key.v>>)

LiteralAfter == At(After, <<last.key.v>>)

\* C13: with nested mode off for the call, a key that contains the
\* separator names one top-level entry: no other entry is created or
\* changed and no nested mapping is made, set writes that entry, get and
\* fetch return it, delete removes it, add and subtract count on it, push
\* and pull work on the array in it.
C13_LiteralKey ==
    (/\ last.op \in {"set", "get", "fetch", "delete", "add", "subtract", "push", "pull"}
     /\ ~last.nested
     /\ KeyValid
     /\ FirstOcc(last.key.v, last.sep) # 0)
        => (/\ \A j \in (DOMAIN Before.v \cup DOMAIN After.v) \ {last.key.v} :
                    At(After, <<j>>) = At(Before, <<j>>)
            /\ last.err # "none" => file = last.pre
            /\ (last.err = "none" /\ last.op = "set" /\ IsJSON(last.value))
                    => LiteralAfter = last.value
            /\ (last.err = "none" /\ last.op \in {"get", "fetch"})
                    => (/\ last.ret = IF LiteralBefore # Absent THEN LiteralBefore ELSE Undefined
                        /\ file = last.pre)
            /\ (last.err = "none" /\ last.op = "delete")
                    => (LiteralAfter = Absent /\ last.ret = Bool(LiteralBefore # Absent))
            /\ (last.err = "none" /\ last.op \in {"add", "subtract"})
                    => LiteralAfter =
                            Num((IF LiteralBefore = Absent THEN 0 ELSE LiteralBefore.v)
                                + (IF last.op = "add" THEN last.value.v ELSE -last.value.v))
            /\ (last.err = "none" /\ last.op = "push" /\ IsJSON(last.value))
                    => LiteralAfter =
                            Arr(IF LiteralBefore = Absent THEN <<last.value>>
                                ELSE Append(LiteralBefore.v, last.value))
            /\ (last.err = "none" /\ last.op = "pull")
                    => (/\ LiteralBefore.t = "array" /\ LiteralAfter.t = "array"
                        /\ last.ret = Bool(TRUE) => Len(LiteralAfter.v) < Len(LiteralBefore.v)
                        /\ last.ret = Bool(FALSE) => LiteralAfter = LiteralBefore))

\* C13 happens: set("a..b", 0) with nested mode off on a store that holds
\* the mapping a with the entry b.
C13_Witness ==
    /\ last.op = "set"
    /\ ~last.nested
    /\ last.key = Str(sAB)
    /\ At(Before, <<sA, sB>>) = Num(1)
    /\ At(After, <<sA, sB>>) = Num(1)
    /\ At(After, <<sAB>>) = Num(0)

\* The operations that take a key.
KeyedOps == {"set", "get", "fetch", "delete", "has", "add", "subtract", "push", "pull"}

\* C14: every operation that takes a key fails with InvalidKey when the key
\* is falsy and with InvalidKeyType when it is truthy and no string; add
\* and subtract fail with InvalidValueType when the key is valid and the
\* amount is no number; none of these failures writes the file.
C14_Validation ==
    last.op \in KeyedOps
        => (/\ ~Truthy(last.key)
                    => (last.err = "InvalidKey" /\ last.writes = 0 /\ file = last.pre)
            /\ (Truthy(last.key) /\ last.key.t # "string")
                    => (last.err = "InvalidKeyType" /\ last.writes = 0 /\ file = last.pre)
            /\ (/\ Truthy(last.key) /\ last.key.t = "string"
                /\ last.op \in {"add", "subtract"}
                /\ last.value.t # "number")
                    => (last.err = "InvalidValueType" /\ last.writes = 0 /\ file = last.pre))

\* C14 happens: add is called with the key null and an amount that is no
\* number on a store that holds entries, and fails on the key.
C14_Witness ==
    /\ last.op = "add"
    /\ last.key = Null
    /\ last.value = Str(<<"s">>)
    /\ last.err = "InvalidKey"
    /\ DOMAIN Before.v # {}

\* C15: no call changes the defaults of the instance: the nested flag and
\* the separator are those given at construction after every call, and a
\* call that leaves an argument out uses the default for it, whatever the
\* calls before it passed.
C15_DefaultsKept ==
    /\ nestedEnabled = TRUE
    /\ separator = DotDot
    /\ (last.op \in KeyedOps /\ last.opt.nestedEnabled = Undefined) => last.nested = TRUE
    /\ (last.op \in KeyedOps /\ last.opt.separator = Undefined) => last.sep = DotDot

\* C15 happens: the store holds a top-level entry "a..b", which only a call
\* with nested mode switched off can make, and a later get("a..b") without
\* options splits the key and finds nothing.
C15_Witness ==
    /\ last.op = "get"
    /\ last.opt = NoOptions
    /\ last.key = Str(sAB)
    /\ At(Before, <<sAB>>) # Absent
    /\ At(Before, <<sA>>) = Absent
    /\ last.nested
    /\ last.ret = Undefined

\* C16: a pull on an array in which no element matches returns false and
\* writes nothing: the file after the call is the file before it, with
\* pullAll false and true, with nested mode on and off.
C16_PullNoMatchNoWrite ==
    (/\ last.op = "pull"
     /\ KeyValid
     /\ At(Before, LastPath).t = "array"
     /\ \A i \in 1..Len(At(Before, LastPath).v) : ~Matches(last.value, At(Before, LastPath).v, i))
        => (/\ last.err = "none"
            /\ last.ret = Bool(FALSE)
            /\ last.writes = 0
            /\ file = last.pre)

\* C16 happens: a pull on an array that holds elements matches none.
C16_Witness ==
    /\ last.op = "pull"
    /\ last.err = "none"
    /\ last.ret = Bool(FALSE)
    /\ At(Before, LastPath).t = "array"
    /\ Len(At(Before, LastPath).v) > 0
    /\ \A i \in 1..Len(At(Before, LastPath).v) : ~Matches(last.value, At(Before, LastPath).v, i)

\* C17: pull with a valid key fails with NotAnArray whenever the path does
\* not lead through mappings to an array (a segment is missing, a segment
\* before the last holds a value that is no mapping, the last holds a value
\* that is no array), and fails with no other kind of error.
C17_PullNotAnArray ==
    (last.op = "pull" /\ KeyValid)
        => (/\ last.err \in {"none", "NotAnArray"}
            /\ At(Before, LastPath).t # "array" => last.err = "NotAnArray")

\* The writer that wrote the file last.
LastWriter == race.order[Len(race.order)]

\* C18: with two writers whose reads and writes interleave, the file always
\* holds the whole document written by the writer that wrote last, that is
\* its own change made on the document it had read; the changes the other
\* writer wrote in between are not in it.
C18_LastWriterWins ==
    race.order # <<>>
        => file = RunCall(race.req[LastWriter], race.snap[LastWriter]).content

\* C18 happens, a lost update: both writers read the empty store, w1 wrote
\* set("a", 1), then w2 wrote set("b", 1); both calls succeeded and the file
\* holds b alone.
C18_LostUpdate ==
    /\ race.pc = [w \in Writers |-> "done"]
    /\ race.err = [w \in Writers |-> "none"]
    /\ race.order = <<"w1", "w2">>
    /\ race.req["w1"] = [op |-> "set", key |-> Str(sA), value |-> Num(1), pullAll |-> FALSE]
    /\ race.req["w2"] = [op |-> "set", key |-> Str(sB), value |-> Num(1), pullAll |-> FALSE]
    /\ race.snap = [w \in Writers |-> Stringify(EmptyObj)]
    /\ file = Obj(sB :> Num(1))

\* C19: a mutating call has made its whole read-modify-write when it hands
\* control back to the caller, the async add included: the promise add
\* returns is settled already, the write is made, and the file holds the
\* change on the document as it was before the call, so that calls made one
\* after another add up (add(k, 2) then add(k, 1) without awaiting gives 3).
C19_NoSuspension ==
    /\ last.op = "add" => last.promise \in {"fulfilled", "rejected"}
    /\ (/\ last.op \in {"set", "add", "subtract", "push"}
        /\ last.err = "none"
        /\ ~ThroughArray(Before, LastPath))
            => LET old == At(Before, LastPath)
                   new == At(After, LastPath)
               IN /\ last.writes = 1
                  /\ (last.op = "set" /\ IsJSON(last.value)) => new = last.value
                  /\ (last.op \in {"add", "subtract"} /\ old.t \in {"number", "absent"})
                          => new = Num((IF old = Absent THEN 0 ELSE old.v)
                                       + (IF last.op = "add" THEN last.value.v ELSE -last.value.v))
                  /\ (last.op = "push" /\ IsJSON(last.value) /\ old.t \in {"array", "absent"})
                          => new = Arr(IF old = Absent THEN <<last.value>>
                                       ELSE Append(old.v, last.value))

\* C19 happens: add("a", 2) on the empty store, then add("a", 1), leave 3.
C19_Witness ==
    /\ last.op = "add"
    /\ last.key = Str(sA)
    /\ last.value = Num(1)
    /\ Before = Obj(sA :> Num(2))
    /\ last.promise = "fulfilled"
    /\ After = Obj(sA :> Num(3))

\* C20: every error of every operation, those of add included, is raised
\* to the caller during the call, before the call returns.
C20_ErrorsThrown ==
    last.err # "none" => last.thrown

\* A pull that walks the path once and writes once at the top when it
\* removed an element: the content of the file after it, and what it
\* returns (a boolean, or Absent when it fails).
PullOnce ==
    LET r == IF last.nested
             THEN TraverseAndPull(Before, LastPath, last.value, last.pullAll)
             ELSE PullFlat(Before, last.key.v, last.value, last.pullAll)
    IN IF IsThrow(r) THEN [content |-> last.pre, ret |-> Absent, writes |-> 0]
       ELSE IF r.removed THEN [content |-> Stringify(r.v), ret |-> Bool(TRUE), writes |-> 1]
       ELSE [content |-> last.pre, ret |-> Bool(FALSE), writes |-> 0]

\* The contents the final call, a pull, wrote.
LastWrites == PullWrites(last.pre, last.key, last.value, last.pullAll, last.nested, last.sep)

\* C21: a pull that removes an element writes once in the terminal frame
\* and once in each frame above it, every write with the same content, so
\* the file and the result are those of a pull that walks once and writes
\* once at the top; a pull that removes nothing, or fails, writes nothing
\* and neither does that pull.
C21_PullWritesAgree ==
    (last.op = "pull" /\ KeyValid)
        => LET written == LastWrites
               once == PullOnce
           IN /\ Len(written) = last.writes
              /\ \A i \in 1..Len(written) : written[i] = file
              /\ file = once.content
              /\ IF last.err = "none" THEN last.ret = once.ret ELSE once.ret = Absent
              /\ (last.err = "none" /\ last.ret = Bool(TRUE))
                      => (last.writes = Len(LastPath) /\ once.writes = 1)
              /\ ~(last.err = "none" /\ last.ret = Bool(TRUE))
                      => (last.writes = 0 /\ once.writes = 0 /\ file = last.pre)

\* C21 happens: a pull three segments deep removed an element and wrote the
\* file three times.
C21_Witness ==
    /\ last.op = "pull"
    /\ last.key = Str(sABC)
    /\ last.nested /\ last.sep = DotDot
    /\ last.ret = Bool(TRUE)
    /\ last.writes = 3
    /\ file # last.pre

\* The outcome of the final call's method on the file as it was before the
\* call, with the call's arguments and the nested flag given.
LastOutcome(nested) ==
    CASE last.op = "set" -> SetCall(last.pre, last.key, last.value, nested, last.sep)
      [] last.op = "get" -> GetCall(last.pre, last.key, nested, last.sep)
      [] last.op = "delete" -> DeleteCall(last.pre, last.key, nested, last.sep)
      [] last.op = "add" -> AddCall(last.pre, last.key, last.value, nested, last.sep)
      [] last.op = "subtract" -> SubtractCall(last.pre, last.key, last.value, nested, last.sep)
      [] last.op = "push" -> PushCall(last.pre, last.key, last.value, nested, last.sep)
      [] last.op = "pull" ->
            PullCall(last.pre, last.key, last.value, last.pullAll, nested, last.sep)

\* C22: for a key that does not contain the separator, the call made and
\* the same call with the other nested flag give the same result or error
\* and leave the same document, whatever the key holds.
C22_NestedFlagIrrelevant ==
    (/\ last.op \in {"set", "get", "delete", "add", "subtract", "push", "pull"}
     /\ KeyValid
     /\ FirstOcc(last.key.v, last.sep) = 0)
        => (/\ last.err = LastOutcome(~last.nested).err
            /\ last.ret = LastOutcome(~last.nested).ret
            /\ file = LastOutcome(~last.nested).content)

\* C23: a set, add, subtract, push, pull or delete that fails, on the key,
\* on the amount, with CannotCreateProperty, NonNumericTarget or NotAnArray
\* or with any other error, has written nothing: the file is as it was
\* before the call, and holds none of the mappings the walk made in memory.
C23_FailureWritesNothing ==
    (last.op \in {"set", "add", "subtract", "push", "pull", "delete"} /\ last.err # "none")
        => (last.writes = 0 /\ file = last.pre)

\* C23 happens: a call fails with CannotCreateProperty on a store that
\* holds entries.
C23_Witness ==
    /\ last.op \in {"set", "add", "subtract", "push"}
    /\ last.err = "CannotCreateProperty"
    /\ DOMAIN Before.v # {}
    /\ file = last.pre

\* What a container holds under a segment, or Absent: an entry of a
\* mapping, an element of an array.
Child(x, p) ==
    IF x.t \in {"object", "array"} /\ HasOwn(x, p) THEN GetProp(x, p) ELSE Absent

\* The segments under which one of two containers holds something.
Segments(x) ==
    IF x.t = "object" THEN DOMAIN x.v
    ELSE IF x.t = "array" THEN {<<c>> : c \in {d \in Digits : DigitVal(d) < Len(x.v)}}
    ELSE {}

\* Off the path, the document after is the document before: at every level
\* of the path the siblings of the path's segment hold what they held, and
\* where the path enters something new nothing but the path is in it.
RECURSIVE SameElsewhere(_, _, _)
SameElsewhere(before, after, path) ==
    /\ \A j \in (Segments(before) \cup Segments(after)) \ {path[1]} :
            Child(after, j) = Child(before, j)
    /\ Len(path) > 1 =>
            SameElsewhere(Child(before, path[1]), Child(after, path[1]), Tail(path))

\* C24: a set(k, v) that returns changes the value at the path k and makes
\* the mappings missing on the way to it, and nothing else: every path that
\* is neither a prefix nor an extension of k holds after the call what it
\* held before.
C24_SetFrame ==
    (last.op = "set" /\ last.err = "none")
        => SameElsewhere(Before, After, LastPath)

====
